---- MODULE Spec2Model ----
(***************************************************************************)
(* A model of the canvelete command-line client: the single-file watch     *)
(* session (watch), the directory watch (watch-dir), the render command,   *)
(* the wait loop of `renders status --wait`, batch-render, and the         *)
(* profile / config store.  Each command is a specification of its own     *)
(* over the same variables; the variables of the other commands stay at    *)
(* their initial values.                                                   *)
(***************************************************************************)
EXTENDS Integers, Sequences, FiniteSets, TLC

VARIABLES
    \* the process running one command
    cmd,            \* the command being run
    pc,             \* position of the command's action handler
    options,        \* the parsed command-line options
    exitCode,       \* "running" until process.exit / the end of the handler
    errMsg,         \* the last error message printed
    netCalls,       \* number of HTTP requests issued by this process
    lastRequest,    \* the last HTTP request issued
    watchers,       \* number of fs.watch registrations
    answer,         \* the answer given to the confirmation prompt
    settings,       \* config store fields baseUrl, defaultFormat, defaultQuality
    \* config store and profile store (persisted), environment
    apiKey,         \* config store field apiKey
    envKey,         \* process.env.CANVELETE_API_KEY
    profiles,       \* profilesConfig 'profiles': name -> profile
    activeProfile,  \* profilesConfig 'activeProfile'
    lastOp,         \* the last profile / auth command and its outcome
    \* watch <dataFile>
    fileContent,    \* what the data file holds now
    debounceTimer,  \* the handle held by the variable debounceTimer (0: null)
    timers,         \* pending timeouts: handle and time left
    inflight,       \* render() invocations awaiting their HTTP response
    renderCount,    \* the counter behind {{count}}
    lastWritten,    \* the last output path written
    hooks,          \* post-render commands launched and still running
    fsEvents,       \* filesystem events delivered or missed so far
    sinceEvent,     \* time since the last change event the callback saw
    burst,          \* change events in a row, each less than the debounce
                    \* time after the one before
    firesSinceEvent,\* timer-fired render() invocations since that event
    lastEventContent, \* the file content at that event
    lastFire,       \* what the last timer-fired render() read, and when
    eventInRender,  \* that event came while a render was in flight
    lastOutcome,    \* how the last render() that ended has ended
    written,        \* the output paths written, in order
    \* renders status <jobId> --wait
    jobStatus,      \* the job's status on the server
    polls,          \* status requests issued
    outstanding,    \* status requests issued and not yet answered
    elapsed,        \* Date.now() - startTime, in ms
    maxLatency,     \* the longest a status request took, in ms
    terminalAt,     \* the poll that returned a terminal status (0: none yet)
    \* batch-render
    batchFile,      \* what the file given by --file holds
    configs,        \* the parsed array of render configurations
    idx,            \* the position of the loop in configs (0: not started)
    completed,      \* the loop's counter of successes
    failed,         \* the loop's counter of failures
    requested,      \* the items a render request was issued for, in order
    batchInflight,  \* the items whose render request is not yet answered
    outcomes,       \* what became of each item's render, in order
    \* watch-dir <directory>
    dirFiles,       \* the directory: file name -> content
    existingFiles,  \* the .json files listed at startup, in listing order
    dirIdx,         \* the position of the startup loop in existingFiles
    processedFiles, \* the Set processedFiles
    settle,         \* the pending 100 ms timeouts, oldest first
    dirInflight,    \* processFile() invocations awaiting their HTTP response
    dirRendered,    \* the files a render request was issued for, in order
    dirWritten,     \* the output files written
    unlinked,       \* the input files deleted by --delete-after
    dirEvents,      \* filesystem events in the directory so far
    dirSeen         \* history: the paths the watcher armed a timeout for

cmdVars   == <<cmd, pc, options, exitCode, errMsg, netCalls, lastRequest, watchers>>
storeVars == <<apiKey, envKey, profiles, activeProfile, lastOp>>
procVars  == <<cmd, options, exitCode, errMsg>>
eventVars == <<sinceEvent, burst, firesSinceEvent, lastEventContent>>
historyVars == <<eventInRender, lastOutcome, written>>
sessionVars == <<debounceTimer, timers, inflight, renderCount, hooks,
                 fsEvents, eventVars, lastFire, historyVars>>
watchVars == <<fileContent, lastWritten, sessionVars>>
waitVars  == <<jobStatus, polls, outstanding, elapsed, maxLatency, terminalAt>>
batchVars == <<batchFile, configs, idx, completed, failed, requested,
               batchInflight, outcomes>>
dirVars   == <<dirFiles, existingFiles, dirIdx, processedFiles, settle,
               dirInflight, dirRendered, dirWritten, unlinked, dirEvents,
               dirSeen>>
extraVars == <<answer, settings>>
vars == <<cmdVars, storeVars, watchVars, waitVars, batchVars, dirVars,
          extraVars>>

\* what an action of one command leaves alone
notWatch == <<storeVars, waitVars, batchVars, dirVars, extraVars>>
notWait  == <<storeVars, watchVars, batchVars, dirVars, extraVars>>
notBatch == <<storeVars, watchVars, waitVars, dirVars, extraVars>>
notStore == <<cmdVars, watchVars, waitVars, batchVars, dirVars, extraVars>>
notDir   == <<storeVars, watchVars, waitVars, batchVars, extraVars>>

----------------------------------------------------------------------------
(* Values *)

Undef == "undefined"

\* JavaScript truthiness of a string-or-undefined value
Truthy(x) == x \notin {Undef, ""}

NoRequest == [endpoint |-> "none"]

\* the elements of a sequence
Range(seq) == {seq[k] : k \in 1 .. Len(seq)}

\* no output path: nothing written yet
NoPath == <<>>

----------------------------------------------------------------------------
(* Bounds *)

MaxEvents == 3          \* filesystem events in one watch session
DebounceMs == 2         \* --debounce, in ticks of the model's clock

----------------------------------------------------------------------------
(* Config store: getApiKey, requireAuth *)

\* getApiKey(): the environment variable when set and non-empty, else the
\* config store's apiKey
getApiKey == IF Truthy(envKey) THEN envKey ELSE apiKey

\* requireAuth() lets the command go on
Authenticated == Truthy(getApiKey)

\* a check of the ids that lets every command line through
MissingIdUnchecked(o) == FALSE

\* !options.design && !options.template
MissingId(o) == ~Truthy(o.design) /\ ~Truthy(o.template)

----------------------------------------------------------------------------
(* Numbers read from the command line.  A numeric argument is a sequence of
   characters; a number is <<n>>, and <<>> stands for NaN, for a number that
   was never set and for a field left out of a request body. *)

Digits == {"0", "1", "5", "9"}

DigitVal(c) ==
    CASE c = "0" -> 0 [] c = "1" -> 1 [] c = "5" -> 5 [] c = "9" -> 9

NaN == <<>>

RECURSIVE TrimStart(_)
\* parseInt skips leading white space
TrimStart(str) ==
    IF str # <<>> /\ Head(str) = " " THEN TrimStart(Tail(str)) ELSE str

RECURSIVE ParseDigits(_, _, _)
\* the value of the longest prefix of decimal digits, NaN when it is empty
ParseDigits(str, acc, any) ==
    IF str # <<>> /\ Head(str) \in Digits
    THEN ParseDigits(Tail(str), 10 * acc + DigitVal(Head(str)), TRUE)
    ELSE IF any THEN <<acc>> ELSE NaN

\* parseInt(value): white space, an optional sign, then decimal digits;
\* whatever follows the digits is ignored; <<n>> for the number n
ParseInt(str) ==
    LET t == TrimStart(str)
    IN  IF t # <<>> /\ Head(t) = "-"
        THEN LET r == ParseDigits(Tail(t), 0, FALSE)
             IN  IF r = NaN THEN NaN ELSE <<0 - r[1]>>
        ELSE ParseDigits(t, 0, FALSE)

\* a number in a condition: NaN, undefined and 0 are false
TruthyNumber(x) == x # NaN /\ x[1] # 0

----------------------------------------------------------------------------
(* API client *)

\* CanveleteAPIClient.render(options): the body it POSTs
ClientRender(o) ==
    [endpoint |-> "/api/automation/render",
     quality |-> IF TruthyNumber(o.quality) THEN o.quality ELSE <<90>>,
     designId |-> IF Truthy(o.designId) THEN o.designId ELSE Undef,
     templateId |-> IF Truthy(o.templateId) THEN o.templateId ELSE Undef,
     dynamicData |-> IF Truthy(o.dynamicData) THEN o.dynamicData ELSE Undef,
     width |-> IF TruthyNumber(o.width) THEN o.width ELSE NaN,
     height |-> IF TruthyNumber(o.height) THEN o.height ELSE NaN]

----------------------------------------------------------------------------
(* watch <dataFile> *)

\* what the data file can hold: two JSON documents, and "invalid" for a file
\* that cannot be read or does not parse
Contents == {"v1", "v2", "invalid"}

\* fs.readFileSync followed by JSON.parse succeeds
Parses(c) == c # "invalid"

WatchOptions ==
    [design : {Undef, "", "d1"}, template : {Undef, "t1"},
     output : {Undef}, onChange : {Undef}, fileExists : BOOLEAN]
    \cup
    [design : {"d1"}, template : {Undef},
     output : {Undef, "out_{{count}}.png"}, onChange : {Undef, "hook"},
     fileExists : {TRUE}]

\* an output path that takes the counter before it is incremented
OutputPathPostIncrement(o, count) ==
    IF o.output = Undef THEN <<"output_", "timestamp">>
    ELSE <<"out_", count - 1>>

\* the output path of a render: {{count}} replaced by the incremented counter
OutputPath(o, count) ==
    IF o.output = Undef THEN <<"output_", "timestamp">>
    ELSE <<"out_", count>>

\* render(), up to its first await: read and parse the data file, then issue
\* the render request
RenderInvoke(by) ==
    IF Parses(fileContent)
    THEN /\ inflight' = inflight \cup
                {[id |-> netCalls + 1, data |-> fileContent, by |-> by]}
         /\ netCalls' = netCalls + 1
         /\ lastRequest' = ClientRender([designId |-> options.design,
                                         templateId |-> options.template,
                                         quality |-> <<90>>,
                                         dynamicData |-> fileContent,
                                         width |-> NaN, height |-> NaN])
         /\ lastOutcome' = lastOutcome
    ELSE \* caught and logged
         /\ lastOutcome' = "parse error"
         /\ UNCHANGED <<inflight, netCalls, lastRequest>>

InitStore ==
    /\ apiKey \in {"", "k1"}
    /\ envKey = Undef
    /\ profiles = [n \in {} |-> Undef]
    /\ activeProfile = "default"
    /\ lastOp = [op |-> "none", name |-> Undef, exit |-> 0]

InitWatchVars ==
    /\ debounceTimer = 0
    /\ timers = {}
    /\ inflight = {}
    /\ renderCount = 0
    /\ lastWritten = NoPath
    /\ hooks = 0
    /\ fsEvents = 0
    /\ sinceEvent = 0
    /\ burst = 0
    /\ firesSinceEvent = 0
    /\ lastEventContent = Undef
    /\ lastFire = [content |-> Undef, after |-> 0]
    /\ eventInRender = FALSE
    /\ lastOutcome = "none"
    /\ written = <<>>

\* the config store's schema defaults; a string setting is a sequence of
\* characters, the defaults being written as one token each
DefaultSettings ==
    [baseUrl |-> <<"https://www.canvelete.com">>, defaultFormat |-> <<"png">>,
     defaultQuality |-> 90]

InitProcess ==
    /\ answer = "none"
    /\ settings = DefaultSettings
    /\ pc = "start"
    /\ exitCode = "running"
    /\ errMsg = ""
    /\ netCalls = 0
    /\ lastRequest = NoRequest
    /\ watchers = 0

InitWaitVars ==
    /\ jobStatus = "pending"
    /\ polls = 0
    /\ outstanding = 0
    /\ elapsed = 0
    /\ maxLatency = 0
    /\ terminalAt = 0

InitBatchVars ==
    /\ configs = <<>>
    /\ idx = 0
    /\ completed = 0
    /\ failed = 0
    /\ requested = <<>>
    /\ batchInflight = {}
    /\ outcomes = <<>>

InitDirVars ==
    /\ existingFiles = <<>>
    /\ dirIdx = 0
    /\ processedFiles = {}
    /\ settle = <<>>
    /\ dirInflight = {}
    /\ dirRendered = <<>>
    /\ dirWritten = {}
    /\ unlinked = {}
    /\ dirEvents = 0
    /\ dirSeen = <<>>

NoDir == [n \in {} |-> Undef]

InitWatch ==
    /\ cmd = "watch"
    /\ options \in WatchOptions
    /\ fileContent \in {"v1", "invalid"}
    /\ InitProcess
    /\ InitStore
    /\ InitWatchVars
    /\ InitWaitVars
    /\ InitBatchVars
    /\ batchFile = [kind |-> "none"]
    /\ InitDirVars
    /\ dirFiles = NoDir

\* process.exit(code) with a message
Exit(code, msg) ==
    /\ pc' = "exit"
    /\ exitCode' = code
    /\ errMsg' = msg

\* a handler that registers the watcher before the initial render
WatchActionWatchFirst ==
    /\ cmd = "watch" /\ pc = "start"
    /\ IF ~Authenticated
       THEN /\ Exit(1, "Not authenticated")
            /\ UNCHANGED <<netCalls, lastRequest, watchers, inflight,
                           lastOutcome>>
       ELSE IF MissingId(options)
       THEN /\ Exit(1, "Either --design or --template is required")
            /\ UNCHANGED <<netCalls, lastRequest, watchers, inflight,
                           lastOutcome>>
       ELSE IF ~options.fileExists
       THEN /\ Exit(1, "File not found")
            /\ UNCHANGED <<netCalls, lastRequest, watchers, inflight,
                           lastOutcome>>
       ELSE /\ RenderInvoke("initial")
            /\ UNCHANGED <<exitCode, errMsg>>
            \* a render that failed before its request returns at once, and
            \* the handler goes on to register the watcher
            /\ IF Parses(fileContent)
               THEN pc' = "initial" /\ watchers' = watchers + 1
               ELSE pc' = "watching" /\ watchers' = watchers + 1
    /\ UNCHANGED <<cmd, options, notWatch, fileContent, debounceTimer, timers,
                   renderCount, lastWritten, hooks, fsEvents, eventVars,
                   lastFire, eventInRender, written>>

\* the action handler of `watch`, up to the first await of the initial render
WatchAction ==
    /\ cmd = "watch" /\ pc = "start"
    /\ IF ~Authenticated
       THEN /\ Exit(1, "Not authenticated")
            /\ UNCHANGED <<netCalls, lastRequest, watchers, inflight,
                           lastOutcome>>
       ELSE IF MissingId(options)
       THEN /\ Exit(1, "Either --design or --template is required")
            /\ UNCHANGED <<netCalls, lastRequest, watchers, inflight,
                           lastOutcome>>
       ELSE IF ~options.fileExists
       THEN /\ Exit(1, "File not found")
            /\ UNCHANGED <<netCalls, lastRequest, watchers, inflight,
                           lastOutcome>>
       ELSE /\ RenderInvoke("initial")
            /\ UNCHANGED <<exitCode, errMsg>>
            \* a render that failed before its request returns at once, and
            \* the handler goes on to register the watcher
            /\ IF Parses(fileContent)
               THEN pc' = "initial" /\ watchers' = watchers
               ELSE pc' = "watching" /\ watchers' = watchers + 1
    /\ UNCHANGED <<cmd, options, notWatch, fileContent, debounceTimer, timers,
                   renderCount, lastWritten, hooks, fsEvents, eventVars,
                   lastFire, eventInRender, written>>

\* a callback that cancels no pending timeout
WatchCallbackNoClear(eventType) ==
    IF eventType = "change"
    THEN /\ timers' = timers \cup {[id |-> fsEvents + 1, left |-> DebounceMs]}
         /\ debounceTimer' = fsEvents + 1
    ELSE UNCHANGED <<timers, debounceTimer>>

\* a callback that drops the events that come while a render is in flight
WatchCallbackDropBusy(eventType) ==
    IF eventType = "change" /\ inflight = {}
    THEN /\ timers' = {t \in timers : t.id # debounceTimer}
                        \cup {[id |-> fsEvents + 1, left |-> DebounceMs]}
         /\ debounceTimer' = fsEvents + 1
    ELSE UNCHANGED <<timers, debounceTimer>>

\* a callback that does not keep the handle of the timeout it arms
WatchCallbackLosesHandle(eventType) ==
    IF eventType = "change"
    THEN /\ timers' = {t \in timers : t.id # debounceTimer}
                        \cup {[id |-> fsEvents + 1, left |-> DebounceMs]}
         /\ debounceTimer' = debounceTimer
    ELSE UNCHANGED <<timers, debounceTimer>>

\* the fs.watch callback: clearTimeout(debounceTimer), then setTimeout
WatchCallback(eventType) ==
    IF eventType = "change"
    THEN /\ timers' = {t \in timers : t.id # debounceTimer}
                        \cup {[id |-> fsEvents + 1, left |-> DebounceMs]}
         /\ debounceTimer' = fsEvents + 1
    ELSE UNCHANGED <<timers, debounceTimer>>

\* the data file is written (or its mode changed): a 'change' event
FsChange(c) ==
    /\ cmd = "watch" /\ pc \in {"initial", "watching"}
    /\ fsEvents < MaxEvents
    /\ fsEvents' = fsEvents + 1
    /\ fileContent' = c
    /\ IF watchers > 0
       THEN /\ WatchCallback("change")
            /\ sinceEvent' = 0
            /\ burst' = IF burst > 0 /\ sinceEvent < DebounceMs
                        THEN burst + 1 ELSE 1
            /\ firesSinceEvent' = 0
            /\ lastEventContent' = c
            /\ eventInRender' = (inflight # {})
       ELSE UNCHANGED <<timers, debounceTimer, eventVars, eventInRender>>
    /\ UNCHANGED <<cmdVars, notWatch, inflight, renderCount, lastWritten,
                   hooks, lastFire, lastOutcome, written>>

\* a 'rename' event on the data file
FsRename ==
    /\ cmd = "watch" /\ pc \in {"initial", "watching"}
    /\ fsEvents < MaxEvents
    /\ fsEvents' = fsEvents + 1
    /\ IF watchers > 0
       THEN WatchCallback("rename")
       ELSE UNCHANGED <<timers, debounceTimer>>
    /\ UNCHANGED <<cmdVars, notWatch, fileContent, inflight, renderCount,
                   lastWritten, hooks, eventVars, lastFire, historyVars>>

\* a pending timeout expires: render() is called
TimerFire ==
    /\ cmd = "watch" /\ pc = "watching"
    /\ \E t \in timers :
        /\ t.left = 0
        /\ timers' = timers \ {t}
    /\ RenderInvoke("timer")
    /\ firesSinceEvent' = firesSinceEvent + 1
    /\ lastFire' = [content |-> fileContent, after |-> sinceEvent]
    /\ UNCHANGED <<procVars, pc, watchers, notWatch, fileContent,
                   debounceTimer, renderCount, lastWritten, hooks, fsEvents,
                   sinceEvent, burst, lastEventContent, eventInRender,
                   written>>

\* a render() without its catch: a failed request or write ends the process
RenderResponseFatal ==
    /\ cmd = "watch" /\ pc \in {"initial", "watching"}
    /\ \E r \in inflight, httpOk \in BOOLEAN, writeOk \in BOOLEAN :
        /\ inflight' = inflight \ {r}
        /\ IF httpOk /\ writeOk
           THEN /\ renderCount' = renderCount + 1
                /\ lastWritten' = OutputPath(options, renderCount + 1)
                /\ written' = Append(written,
                                 OutputPath(options, renderCount + 1))
                /\ hooks' = IF Truthy(options.onChange)
                            THEN hooks + 1 ELSE hooks
                /\ lastOutcome' = "ok"
                /\ IF pc = "initial"
                   THEN pc' = "watching" /\ watchers' = watchers + 1
                   ELSE UNCHANGED <<pc, watchers>>
                /\ UNCHANGED <<exitCode, errMsg>>
           ELSE /\ lastOutcome' = IF httpOk THEN "write error" ELSE "http error"
                /\ renderCount' = IF httpOk THEN renderCount + 1 ELSE renderCount
                /\ Exit(1, "Render failed")
                /\ UNCHANGED <<lastWritten, written, hooks, watchers>>
    /\ UNCHANGED <<cmd, options, netCalls, lastRequest, notWatch, fileContent,
                   debounceTimer, timers, fsEvents, eventVars, lastFire,
                   eventInRender>>

\* render(), after its await: the response of the render request arrives; the
\* output is written and the post-render command launched
RenderResponse ==
    /\ cmd = "watch" /\ pc \in {"initial", "watching"}
    /\ \E r \in inflight, httpOk \in BOOLEAN, writeOk \in BOOLEAN :
        /\ inflight' = inflight \ {r}
        /\ IF httpOk
           THEN /\ renderCount' = renderCount + 1
                /\ IF writeOk
                   THEN /\ lastWritten' = OutputPath(options, renderCount + 1)
                        /\ written' = Append(written,
                                         OutputPath(options, renderCount + 1))
                        /\ hooks' = IF Truthy(options.onChange)
                                    THEN hooks + 1 ELSE hooks
                        /\ lastOutcome' = "ok"
                   ELSE /\ lastOutcome' = "write error"
                        /\ UNCHANGED <<lastWritten, written, hooks>>
           ELSE /\ lastOutcome' = "http error"
                /\ UNCHANGED <<renderCount, lastWritten, written, hooks>>
    \* the initial render is awaited by the handler, which then registers
    \* the watcher
    /\ IF pc = "initial"
       THEN pc' = "watching" /\ watchers' = watchers + 1
       ELSE UNCHANGED <<pc, watchers>>
    /\ UNCHANGED <<procVars, netCalls, lastRequest, notWatch, fileContent,
                   debounceTimer, timers, fsEvents, eventVars, lastFire,
                   eventInRender>>

\* an exec callback that ends the process when the command has failed
ExecCallbackFatal(err) ==
    IF err THEN Exit(1, "Post-render command failed")
    ELSE UNCHANGED <<pc, exitCode, errMsg>>

\* the callback given to exec: the command's error or output is logged
ExecCallback(err) == UNCHANGED <<pc, exitCode, errMsg>>

\* a post-render command ends, well or not
HookExit ==
    /\ cmd = "watch" /\ pc = "watching"
    /\ hooks > 0
    /\ hooks' = hooks - 1
    /\ \E err \in BOOLEAN : ExecCallback(err)
    /\ UNCHANGED <<cmd, options, netCalls, lastRequest, watchers,
                   notWatch, fileContent, debounceTimer, timers,
                   inflight, renderCount, lastWritten, fsEvents, eventVars,
                   lastFire, historyVars>>

\* time passes; a timeout that is due fires before the clock moves on
Tick ==
    /\ cmd = "watch" /\ pc = "watching"
    /\ \A t \in timers : t.left > 0
    /\ sinceEvent <= DebounceMs
    /\ sinceEvent' = sinceEvent + 1
    /\ timers' = {[t EXCEPT !.left = @ - 1] : t \in timers}
    /\ UNCHANGED <<cmdVars, notWatch, fileContent, debounceTimer, inflight,
                   renderCount, lastWritten, hooks, fsEvents, burst,
                   firesSinceEvent, lastEventContent, lastFire, historyVars>>

\* SIGINT: the handler registered after fs.watch exits the process, and the
\* session's timers and requests go with it
Sigint ==
    /\ cmd = "watch" /\ pc = "watching"
    /\ pc' = "exit"
    /\ exitCode' = 0
    /\ timers' = {}
    /\ inflight' = {}
    /\ debounceTimer' = 0
    /\ UNCHANGED <<cmd, options, errMsg, netCalls, lastRequest, watchers,
                   notWatch, fileContent, renderCount, lastWritten, hooks,
                   fsEvents, eventVars, lastFire, historyVars>>

NextWatch ==
    \/ WatchAction
    \/ \E c \in Contents : FsChange(c)
    \/ FsRename
    \/ TimerFire
    \/ RenderResponse
    \/ HookExit
    \/ Tick
    \/ Sigint

SpecWatch == InitWatch /\ [][NextWatch]_vars

\* the event loop: time passes, a timeout that is due runs its callback, and
\* a request that was issued is answered
FairWatch ==
    /\ WF_vars(Tick)
    /\ WF_vars(TimerFire)
    /\ WF_vars(RenderResponse)

\* a session with a design, a post-render command and its data file in place
InitWatchFair ==
    /\ InitWatch
    /\ options = [design |-> "d1", template |-> Undef, output |-> Undef,
                  onChange |-> "hook", fileExists |-> TRUE]

SpecWatchFair == InitWatchFair /\ [][NextWatch]_vars /\ FairWatch

----------------------------------------------------------------------------
(* renders status <jobId> [--wait] [--timeout <seconds>] *)

MaxTimeoutSec == 6      \* --timeout, in seconds
MaxLatencySec == 3      \* the longest a status request takes, in seconds

MsPerSecond == 1000
pollInterval == 2000

\* RenderJob.status
JobStatuses == {"pending", "processing", "completed", "failed"}
Terminal == {"completed", "failed"}

StatusOptions == [wait : BOOLEAN, timeout : 0 .. MaxTimeoutSec]

\* const timeout = parseInt(options.timeout) * 1000
timeout == options.timeout * MsPerSecond

InitWait ==
    /\ cmd = "status"
    /\ options \in StatusOptions
    /\ InitProcess
    /\ InitStore
    /\ InitWatchVars
    /\ fileContent = "v1"
    /\ InitWaitVars
    /\ InitBatchVars
    /\ batchFile = [kind |-> "none"]
    /\ InitDirVars
    /\ dirFiles = NoDir

\* a status fetch that sends a second request along with the first
GetRenderStatusTwice ==
    /\ polls' = polls + 2
    /\ outstanding' = outstanding + 2
    /\ netCalls' = netCalls + 2
    /\ lastRequest' = [endpoint |-> "/api/v1/render/status"]

\* client.getRenderStatus(jobId): one GET, no retry
GetRenderStatus ==
    /\ polls' = polls + 1
    /\ outstanding' = outstanding + 1
    /\ netCalls' = netCalls + 1
    /\ lastRequest' = [endpoint |-> "/api/v1/render/status"]

\* a loop head that goes round once more when the time is just up
WaitLoopInclusive(now) ==
    IF now <= timeout
    THEN /\ GetRenderStatus
         /\ pc' = "polling"
         /\ UNCHANGED <<exitCode, errMsg>>
    ELSE /\ Exit(1, "Timeout waiting for render")
         /\ UNCHANGED <<polls, outstanding, netCalls, lastRequest>>

\* the head of the wait loop: while (Date.now() - startTime < timeout)
WaitLoop(now) ==
    IF now < timeout
    THEN /\ GetRenderStatus
         /\ pc' = "polling"
         /\ UNCHANGED <<exitCode, errMsg>>
    ELSE /\ Exit(1, "Timeout waiting for render")
         /\ UNCHANGED <<polls, outstanding, netCalls, lastRequest>>

\* the action handler of `renders status`, up to its first await
StatusAction ==
    /\ cmd = "status" /\ pc = "start"
    /\ IF ~Authenticated
       THEN /\ Exit(1, "Not authenticated")
            /\ UNCHANGED <<polls, outstanding, netCalls, lastRequest>>
       ELSE IF options.wait
       THEN WaitLoop(0)
       ELSE /\ GetRenderStatus
            /\ pc' = "single"
            /\ UNCHANGED <<exitCode, errMsg>>
    /\ UNCHANGED <<cmd, options, watchers, jobStatus, elapsed, maxLatency,
                   terminalAt, notWait>>

\* a wait loop that goes on polling a failed job
AfterPollFailedIgnored(status) ==
    IF status = "completed"
    THEN /\ pc' = "exit" /\ exitCode' = 0 /\ errMsg' = errMsg
    ELSE /\ pc' = "sleeping" /\ UNCHANGED <<exitCode, errMsg>>

\* the body of the wait loop after the status arrived
AfterPoll(status) ==
    IF status = "completed"
    THEN /\ pc' = "exit" /\ exitCode' = 0 /\ errMsg' = errMsg
    ELSE IF status = "failed"
    THEN Exit(1, "Render failed")
    ELSE /\ pc' = "sleeping" /\ UNCHANGED <<exitCode, errMsg>>

\* the status request of the wait loop is answered after `latency` seconds
PollResponse(latency) ==
    /\ cmd = "status" /\ pc = "polling"
    /\ outstanding' = outstanding - 1
    /\ elapsed' = elapsed + latency * MsPerSecond
    /\ maxLatency' = IF latency * MsPerSecond > maxLatency
                     THEN latency * MsPerSecond ELSE maxLatency
    /\ terminalAt' = IF jobStatus \in Terminal THEN polls ELSE terminalAt
    /\ AfterPoll(jobStatus)
    /\ UNCHANGED <<cmd, options, netCalls, lastRequest, watchers, jobStatus,
                   polls, notWait>>

\* a wait loop that reports a failed status request and polls again
PollErrorRetry ==
    /\ cmd = "status" /\ pc \in {"polling", "single"}
    /\ outstanding' = outstanding - 1
    /\ errMsg' = "Failed to check status"
    /\ pc' = "sleeping"
    /\ UNCHANGED <<cmd, options, exitCode, netCalls, lastRequest, watchers,
                   jobStatus, polls, elapsed, maxLatency, terminalAt, notWait>>

\* the status request fails (an HTTP error status, a network error)
PollError ==
    /\ cmd = "status" /\ pc \in {"polling", "single"}
    /\ outstanding' = outstanding - 1
    /\ Exit(1, "Failed to check status")
    /\ UNCHANGED <<cmd, options, netCalls, lastRequest, watchers, jobStatus,
                   polls, elapsed, maxLatency, terminalAt, notWait>>

\* await new Promise(r => setTimeout(r, pollInterval)), then the loop head
SleepDone ==
    /\ cmd = "status" /\ pc = "sleeping"
    /\ elapsed' = elapsed + pollInterval
    /\ WaitLoop(elapsed + pollInterval)
    /\ UNCHANGED <<cmd, options, watchers, jobStatus, maxLatency, terminalAt,
                   notWait>>

\* without --wait: the one status is printed
SingleResponse ==
    /\ cmd = "status" /\ pc = "single"
    /\ outstanding' = outstanding - 1
    /\ pc' = "exit"
    /\ exitCode' = 0
    /\ UNCHANGED <<cmd, options, errMsg, netCalls, lastRequest, watchers,
                   jobStatus, polls, elapsed, maxLatency, terminalAt, notWait>>

\* the server works on the job
ServerProgress ==
    /\ cmd = "status" /\ pc # "exit"
    /\ \/ jobStatus = "pending" /\ jobStatus' = "processing"
       \/ jobStatus = "processing" /\ jobStatus' \in Terminal
    /\ UNCHANGED <<cmdVars, polls, outstanding, elapsed, maxLatency,
                   terminalAt, notWait>>

NextWait ==
    \/ StatusAction
    \/ \E latency \in 0 .. MaxLatencySec : PollResponse(latency)
    \/ PollError
    \/ SleepDone
    \/ SingleResponse
    \/ ServerProgress

SpecWait == InitWait /\ [][NextWait]_vars

----------------------------------------------------------------------------
(* batch-render --file <file> *)

MaxBatch == 3           \* items in a batch file

\* an entry of the batch file: a render configuration
BatchItems ==
    [designId : {Undef, "d1"}, templateId : {Undef, "t1"}, data : {Undef}]
        \ {[designId |-> "d1", templateId |-> "t1", data |-> Undef]}

SeqsUpTo(S, n) == UNION {[1 .. k -> S] : k \in 0 .. n}

\* what --file can hold: no JSON, JSON that is no array, an array
BatchFiles ==
    {[kind |-> "invalid"], [kind |-> "object"]}
        \cup {[kind |-> "array", items |-> a] : a \in SeqsUpTo(BatchItems, MaxBatch)}

BatchOptions == [file : {Undef, "batch.json"}, parallel : {"1", "3"}]

InitBatch ==
    /\ cmd = "batch"
    /\ options \in BatchOptions
    /\ batchFile \in BatchFiles
    /\ InitProcess
    /\ InitStore
    /\ InitWatchVars
    /\ fileContent = "v1"
    /\ InitWaitVars
    /\ InitBatchVars
    /\ InitDirVars
    /\ dirFiles = NoDir

\* a loop that submits the next item along with item i
BatchLoopParallel(cs, i, unanswered) ==
    IF i <= Len(cs)
    THEN /\ idx' = i
         /\ requested' = IF i < Len(cs) /\ i + 1 \notin Range(requested)
                          THEN requested \o <<i, i + 1>>
                          ELSE Append(requested, i)
         /\ batchInflight' = unanswered \cup ({i, i + 1} \cap (1 .. Len(cs)))
         /\ netCalls' = netCalls + 1
         /\ lastRequest' = ClientRender([designId |-> cs[i].designId,
                                         templateId |-> cs[i].templateId,
                                         quality |-> <<90>>,
                                         dynamicData |-> cs[i].data,
                                         width |-> NaN, height |-> NaN])
         /\ pc' = "rendering"
         /\ UNCHANGED <<exitCode, errMsg>>
    ELSE /\ pc' = "exit"
         /\ exitCode' = 0
         /\ batchInflight' = unanswered
         /\ UNCHANGED <<idx, requested, netCalls, lastRequest, errMsg>>

\* the loop reaches item i: client.render is called with it, or, past the
\* last item, the summary is printed and the handler ends
BatchLoop(cs, i, unanswered) ==
    IF i <= Len(cs)
    THEN /\ idx' = i
         /\ requested' = Append(requested, i)
         /\ batchInflight' = unanswered \cup {i}
         /\ netCalls' = netCalls + 1
         /\ lastRequest' = ClientRender([designId |-> cs[i].designId,
                                         templateId |-> cs[i].templateId,
                                         quality |-> <<90>>,
                                         dynamicData |-> cs[i].data,
                                         width |-> NaN, height |-> NaN])
         /\ pc' = "rendering"
         /\ UNCHANGED <<exitCode, errMsg>>
    ELSE /\ pc' = "exit"
         /\ exitCode' = 0
         /\ batchInflight' = unanswered
         /\ UNCHANGED <<idx, requested, netCalls, lastRequest, errMsg>>

\* the action handler of `batch-render`, up to its first await
BatchAction ==
    /\ cmd = "batch" /\ pc = "start"
    /\ IF ~Authenticated
       THEN /\ Exit(1, "Not authenticated")
            /\ UNCHANGED <<configs, idx, requested, batchInflight, netCalls,
                           lastRequest>>
       ELSE IF ~Truthy(options.file)
       THEN /\ Exit(1, "--file is required")
            /\ UNCHANGED <<configs, idx, requested, batchInflight, netCalls,
                           lastRequest>>
       ELSE IF batchFile.kind = "invalid"
       THEN /\ Exit(1, "Failed to read batch file")
            /\ UNCHANGED <<configs, idx, requested, batchInflight, netCalls,
                           lastRequest>>
       ELSE IF batchFile.kind # "array" \/ Len(batchFile.items) = 0
       THEN /\ Exit(1, "Batch file must contain an array of render configurations")
            /\ UNCHANGED <<configs, idx, requested, batchInflight, netCalls,
                           lastRequest>>
       ELSE /\ configs' = batchFile.items
            /\ BatchLoop(batchFile.items, 1, batchInflight)
    /\ UNCHANGED <<cmd, options, watchers, batchFile, completed, failed,
                   outcomes, notBatch>>

\* a loop that gives up at the first item that fails
BatchItemDoneAbort(ok) ==
    IF ok
    THEN /\ completed' = completed + 1
         /\ failed' = failed
         /\ BatchLoop(configs, idx + 1, batchInflight \ {idx})
    ELSE /\ failed' = failed + 1
         /\ completed' = completed
         /\ Exit(1, "Render failed")
         /\ batchInflight' = batchInflight \ {idx}
         /\ UNCHANGED <<idx, requested, netCalls, lastRequest>>

\* the try / catch around one item: count it, and go on with the next
BatchItemDone(ok) ==
    /\ IF ok
       THEN completed' = completed + 1 /\ failed' = failed
       ELSE failed' = failed + 1 /\ completed' = completed
    /\ BatchLoop(configs, idx + 1, batchInflight \ {idx})

\* the render request of the current item is answered, and on success its
\* output file written
BatchResponse ==
    /\ cmd = "batch" /\ pc = "rendering"
    /\ \E outcome \in {"ok", "render error", "write error"} :
        /\ outcomes' = Append(outcomes, outcome)
        /\ BatchItemDone(outcome = "ok")
    /\ UNCHANGED <<cmd, options, watchers, batchFile, configs, notBatch>>

NextBatch ==
    \/ BatchAction
    \/ BatchResponse

SpecBatch == InitBatch /\ [][NextBatch]_vars

----------------------------------------------------------------------------
(* profiles add / remove / use / import, auth login / logout *)

\* profile names; "constructor" stands for the names that every JavaScript
\* object inherits from Object.prototype
Names == {"default", "prod", "constructor"}
ObjectPrototype == {"constructor"}

\* API keys; a key exported by `profiles export` is masked: it ends in "..."
Keys == {"k1", "k2"}
Masked(k) == k = "k1..."

\* allProfiles[name] is truthy: an own property, or an inherited one
HasProfile(allProfiles, name) ==
    name \in DOMAIN allProfiles \/ name \in ObjectPrototype

\* allProfiles[name].apiKey
ProfileApiKey(allProfiles, name) ==
    IF name \in DOMAIN allProfiles THEN allProfiles[name].apiKey ELSE Undef

\* getProfileApiKey(): profile?.apiKey || getApiKey(), profile being
\* allProfiles[activeProfile]
getProfileApiKey ==
    IF Truthy(ProfileApiKey(profiles, activeProfile))
    THEN ProfileApiKey(profiles, activeProfile)
    ELSE getApiKey

\* allProfiles[name] = profile
WithProfile(allProfiles, name, profile) ==
    [n \in DOMAIN allProfiles \cup {name} |->
        IF n = name THEN profile ELSE allProfiles[n]]

\* delete allProfiles[name]
WithoutProfile(allProfiles, name) ==
    [n \in DOMAIN allProfiles \ {name} |-> allProfiles[n]]

\* a setApiKey that stores nothing
SetApiKeyNothing(key) == apiKey' = apiKey

\* setApiKey(key): config.set('apiKey', key); the config store refuses an
\* undefined value by throwing, and stores nothing
SetApiKey(key) == apiKey' = IF key = Undef THEN apiKey ELSE key

InitProfiles ==
    /\ cmd = "profiles"
    /\ options = <<>>
    /\ InitProcess
    /\ apiKey = ""
    /\ envKey \in {Undef, "", "kenv"}
    /\ profiles = [n \in {} |-> Undef]
    /\ activeProfile = "default"
    /\ lastOp = [op |-> "none", name |-> Undef, exit |-> 0]
    /\ InitWatchVars
    /\ fileContent = "v1"
    /\ InitWaitVars
    /\ InitBatchVars
    /\ batchFile = [kind |-> "none"]
    /\ InitDirVars
    /\ dirFiles = NoDir

\* profiles add <name>: the answers to its prompts are overwrite, key, switchTo
ProfilesAdd(name, key, overwrite, switchTo) ==
    /\ cmd = "profiles"
    /\ IF HasProfile(profiles, name) /\ ~overwrite
       THEN /\ lastOp' = [op |-> "add", name |-> name, exit |-> 0]
            /\ UNCHANGED <<profiles, activeProfile, apiKey>>
       ELSE /\ profiles' = WithProfile(profiles, name, [apiKey |-> key])
            /\ lastOp' = [op |-> "add", name |-> name, exit |-> 0]
            /\ IF switchTo
               THEN activeProfile' = name /\ SetApiKey(key)
               ELSE UNCHANGED <<activeProfile, apiKey>>
    /\ UNCHANGED <<envKey, notStore>>

\* a removal that logs out when it removes the active profile
ProfilesRemoveClearsKey(name, confirmed) ==
    /\ cmd = "profiles"
    /\ IF ~HasProfile(profiles, name)
       THEN /\ lastOp' = [op |-> "remove", name |-> name, exit |-> 1,
                          wasActive |-> activeProfile = name]
            /\ UNCHANGED <<profiles, activeProfile, apiKey>>
       ELSE IF ~confirmed
       THEN /\ lastOp' = [op |-> "remove", name |-> name, exit |-> 0,
                          wasActive |-> activeProfile = name]
            /\ UNCHANGED <<profiles, activeProfile, apiKey>>
       ELSE /\ profiles' = WithoutProfile(profiles, name)
            /\ activeProfile' = IF activeProfile = name THEN "default"
                                ELSE activeProfile
            /\ apiKey' = IF activeProfile = name THEN "" ELSE apiKey
            /\ lastOp' = [op |-> "remove", name |-> name, exit |-> 0,
                          wasActive |-> activeProfile = name]
    /\ UNCHANGED <<envKey, notStore>>

\* profiles remove <name>: confirmed by --force or at the prompt; the history
\* record notes whether <name> was the active profile
ProfilesRemove(name, confirmed) ==
    /\ cmd = "profiles"
    /\ IF ~HasProfile(profiles, name)
       THEN /\ lastOp' = [op |-> "remove", name |-> name, exit |-> 1,
                          wasActive |-> activeProfile = name]
            /\ UNCHANGED <<profiles, activeProfile>>
       ELSE IF ~confirmed
       THEN /\ lastOp' = [op |-> "remove", name |-> name, exit |-> 0,
                          wasActive |-> activeProfile = name]
            /\ UNCHANGED <<profiles, activeProfile>>
       ELSE /\ profiles' = WithoutProfile(profiles, name)
            /\ activeProfile' = IF activeProfile = name THEN "default"
                                ELSE activeProfile
            /\ lastOp' = [op |-> "remove", name |-> name, exit |-> 0,
                          wasActive |-> activeProfile = name]
    /\ UNCHANGED <<apiKey, envKey, notStore>>

\* profiles use <name>
ProfilesUse(name) ==
    /\ cmd = "profiles"
    /\ IF ~HasProfile(profiles, name)
       THEN /\ lastOp' = [op |-> "use", name |-> name, exit |-> 1]
            /\ UNCHANGED <<activeProfile, apiKey>>
       ELSE /\ activeProfile' = name
            /\ SetApiKey(ProfileApiKey(profiles, name))
            \* a setApiKey that throws ends the command with exit code 1
            /\ lastOp' = [op |-> "use", name |-> name,
                          exit |-> IF ProfileApiKey(profiles, name) = Undef
                                   THEN 1 ELSE 0]
    /\ UNCHANGED <<profiles, envKey, notStore>>

\* what a file given to `profiles import` can hold
ImportNames == {"default", "prod"}
ImportKeys == {"", "k1...", "k2"}
ImportFiles ==
    UNION {[S -> [apiKey : ImportKeys]] : S \in SUBSET ImportNames}

\* the profiles of `imported` that carry a full key, put over `base`
Imported(base, imported) ==
    [n \in DOMAIN base \cup
           {m \in DOMAIN imported :
                Truthy(imported[m].apiKey) /\ ~Masked(imported[m].apiKey)} |->
        IF n \in DOMAIN imported /\ Truthy(imported[n].apiKey)
                                 /\ ~Masked(imported[n].apiKey)
        THEN imported[n] ELSE base[n]]

\* profiles import <file> [--merge]
ProfilesImport(imported, merge) ==
    /\ cmd = "profiles"
    /\ profiles' = Imported(IF merge THEN profiles ELSE [n \in {} |-> Undef],
                            imported)
    /\ lastOp' = [op |-> "import", name |-> Undef, exit |-> 0]
    /\ UNCHANGED <<activeProfile, apiKey, envKey, notStore>>

\* a login that stores the key before it hears from the server
AuthLoginStoreFirst(key, response) ==
    /\ cmd = "profiles"
    /\ SetApiKey(key)
    /\ lastOp' = [op |-> "login", name |-> key, response |-> response,
                  exit |-> IF response = "ok" THEN 0 ELSE 1]
    /\ UNCHANGED <<profiles, activeProfile, envKey, notStore>>

\* auth login: the key is stored when the validation request succeeds; the
\* request is answered 2xx ("ok"), 401, another status ("500"), or throws
AuthLogin(key, response) ==
    /\ cmd = "profiles"
    /\ IF response = "ok"
       THEN /\ SetApiKey(key)
            /\ lastOp' = [op |-> "login", name |-> key, response |-> response,
                          exit |-> 0]
       ELSE \* process.exit(1) at the 401, or from the catch
            /\ apiKey' = apiKey
            /\ lastOp' = [op |-> "login", name |-> key, response |-> response,
                          exit |-> 1]
    /\ UNCHANGED <<profiles, activeProfile, envKey, notStore>>

\* auth logout: clearApiKey()
AuthLogout ==
    /\ cmd = "profiles"
    /\ apiKey' = ""
    /\ lastOp' = [op |-> "logout", name |-> Undef, exit |-> 0]
    /\ UNCHANGED <<profiles, activeProfile, envKey, notStore>>

NextProfiles ==
    \/ \E name \in Names, key \in Keys \cup {""}, overwrite, switchTo \in BOOLEAN :
            ProfilesAdd(name, key, overwrite, switchTo)
    \/ \E name \in Names, confirmed \in BOOLEAN : ProfilesRemove(name, confirmed)
    \/ \E name \in Names : ProfilesUse(name)
    \/ \E imported \in ImportFiles, merge \in BOOLEAN :
            ProfilesImport(imported, merge)
    \/ \E key \in Keys, response \in {"ok", "401", "500", "throw"} :
            AuthLogin(key, response)
    \/ AuthLogout

SpecProfiles == InitProfiles /\ [][NextProfiles]_vars

----------------------------------------------------------------------------
(* render *)

\* CanveleteAPIClient.renderAsync(options): the body it POSTs
ClientRenderAsync(o) ==
    [endpoint |-> "/api/v1/render/async",
     quality |-> IF TruthyNumber(o.quality) THEN o.quality ELSE <<90>>,
     designId |-> IF Truthy(o.designId) THEN o.designId ELSE Undef,
     templateId |-> IF Truthy(o.templateId) THEN o.templateId ELSE Undef,
     dynamicData |-> IF Truthy(o.dynamicData) THEN o.dynamicData ELSE Undef,
     width |-> NaN,
     height |-> NaN]

\* --quality has the default "90"; --width and --height are the empty
\* sequence when they are not given
RenderOptions ==
    [design : {Undef, "d1"}, template : {Undef, "t1"},
     dataFile : {Undef, "data.json"}, data : {Undef, "v2", "invalid"},
     async : BOOLEAN, stdout : BOOLEAN,
     quality : {<<"9", "0">>, <<"0">>, <<"1", "5", "0">>, <<"a">>},
     width : {<<>>, <<"0">>, <<"5", "0">>},
     height : {<<>>, <<"5">>}]

InitRender ==
    /\ cmd = "render"
    /\ options \in RenderOptions
    /\ fileContent \in {"v1", "invalid"}
    /\ InitProcess
    /\ InitStore
    /\ InitWatchVars
    /\ InitWaitVars
    /\ InitBatchVars
    /\ batchFile = [kind |-> "none"]
    /\ InitDirVars
    /\ dirFiles = NoDir

\* the dynamic data of `render`: --data-file, else --data, else null
RenderData ==
    IF Truthy(options.dataFile) THEN fileContent
    ELSE IF Truthy(options.data) THEN options.data
    ELSE Undef

\* the action handler of `render`, up to its first await
RenderAction ==
    /\ cmd = "render" /\ pc = "start"
    /\ IF ~Authenticated
       THEN /\ Exit(1, "Not authenticated")
            /\ UNCHANGED <<netCalls, lastRequest>>
       ELSE IF MissingId(options)
       THEN /\ Exit(1, "Either --design or --template is required")
            /\ UNCHANGED <<netCalls, lastRequest>>
       ELSE IF Truthy(options.dataFile) /\ ~Parses(fileContent)
       THEN /\ Exit(1, "Failed to read data file")
            /\ UNCHANGED <<netCalls, lastRequest>>
       ELSE IF ~Truthy(options.dataFile) /\ Truthy(options.data)
                                         /\ ~Parses(options.data)
       THEN /\ Exit(1, "Invalid JSON data")
            /\ UNCHANGED <<netCalls, lastRequest>>
       ELSE /\ netCalls' = netCalls + 1
            /\ lastRequest' =
                 LET o == [designId |-> options.design,
                           templateId |-> options.template,
                           quality |-> ParseInt(options.quality),
                           dynamicData |-> RenderData,
                           width |-> IF options.width # <<>>
                                     THEN ParseInt(options.width) ELSE NaN,
                           height |-> IF options.height # <<>>
                                      THEN ParseInt(options.height) ELSE NaN]
                 IN IF options.async THEN ClientRenderAsync(o) ELSE ClientRender(o)
            /\ pc' = IF options.async THEN "starting" ELSE "rendering"
            /\ UNCHANGED <<exitCode, errMsg>>
    /\ UNCHANGED <<cmd, options, watchers, fileContent, lastWritten,
                   sessionVars, notWatch>>

\* the render request of `render` is answered; the image is written
RenderDone ==
    /\ cmd = "render" /\ pc \in {"starting", "rendering"}
    /\ \E httpOk \in BOOLEAN, writeOk \in BOOLEAN :
        IF ~httpOk
        THEN /\ Exit(1, IF pc = "starting" THEN "Failed to start render job"
                        ELSE "Render failed")
             /\ UNCHANGED lastWritten
        ELSE IF pc = "starting" \/ options.stdout
        THEN /\ pc' = "exit" /\ exitCode' = 0
             /\ UNCHANGED <<errMsg, lastWritten>>
        ELSE IF writeOk
        THEN /\ pc' = "exit" /\ exitCode' = 0
             /\ lastWritten' = <<"render_", "timestamp">>
             /\ UNCHANGED errMsg
        ELSE /\ Exit(1, "Render failed")
             /\ UNCHANGED lastWritten
    /\ UNCHANGED <<cmd, options, netCalls, lastRequest, watchers, fileContent,
                   sessionVars, notWatch>>

NextRender ==
    \/ RenderAction
    \/ RenderDone

SpecRender == InitRender /\ [][NextRender]_vars

----------------------------------------------------------------------------
(* watch-dir <directory> *)

MaxDirEvents == 2       \* filesystem events in one watch-dir session

DirNames == {"a.json", "b.json", "notes.txt"}
DirListing == <<"a.json", "b.json", "notes.txt">>

\* fileName.endsWith('.json')
IsJson(name) == name \in {"a.json", "b.json"}

\* fs.readdirSync(directory).filter(f => f.endsWith('.json'))
Listing(files) ==
    SelectSeq(DirListing, LAMBDA n : n \in DOMAIN files /\ IsJson(n))

DirOptions ==
    [design : {Undef, "d1"}, template : {Undef}, deleteAfter : BOOLEAN,
     dirExists : BOOLEAN]
    \cup
    [design : {Undef}, template : {"t1"}, deleteAfter : {FALSE},
     dirExists : {TRUE}]

InitDir ==
    /\ cmd = "watch-dir"
    /\ options \in DirOptions
    /\ dirFiles \in UNION {[S -> {"v1", "invalid"}] : S \in SUBSET DirNames}
    /\ InitProcess
    /\ InitStore
    /\ InitWatchVars
    /\ fileContent = "v1"
    /\ InitWaitVars
    /\ InitBatchVars
    /\ batchFile = [kind |-> "none"]
    /\ InitDirVars

\* a processFile that keeps no record of the files it has seen
SkippedWithoutSet(path, processed) == ~IsJson(path)

\* processFile returns at once: the file was processed before, or is no .json
Skipped(path, processed) == path \in processed \/ ~IsJson(path)

\* fs.readFileSync and JSON.parse succeed on the file as it is now
Readable(path, files) == path \in DOMAIN files /\ Parses(files[path])

\* a startup loop that records a file only once it has read and parsed it
RECURSIVE StartupLoopRecordsLate(_, _, _, _)
StartupLoopRecordsLate(list, i, processed, files) ==
    IF i > Len(list) THEN [idx |-> i, processed |-> processed]
    ELSE IF Skipped(list[i], processed)
    THEN StartupLoopRecordsLate(list, i + 1, processed, files)
    ELSE IF Readable(list[i], files)
    THEN [idx |-> i, processed |-> processed \cup {list[i]}]
    ELSE StartupLoopRecordsLate(list, i + 1, processed, files)

\* the startup loop from position i on, up to the first file whose render
\* request is issued: where it stops, and the files it has added to
\* processedFiles on the way
RECURSIVE StartupLoop(_, _, _, _)
StartupLoop(list, i, processed, files) ==
    IF i > Len(list) THEN [idx |-> i, processed |-> processed]
    ELSE IF Skipped(list[i], processed)
    THEN StartupLoop(list, i + 1, processed, files)
    ELSE IF Readable(list[i], files)
    THEN [idx |-> i, processed |-> processed \cup {list[i]}]
    ELSE StartupLoop(list, i + 1, processed \cup {list[i]}, files)

\* processFile, from client.render on: the request for `path` is issued
DirRequest(path, files, unanswered) ==
    /\ dirInflight' = unanswered \cup {[file |-> path, data |-> files[path]]}
    /\ dirRendered' = Append(dirRendered, path)
    /\ netCalls' = netCalls + 1
    /\ lastRequest' = ClientRender([designId |-> options.design,
                                    templateId |-> options.template,
                                    quality |-> <<90>>,
                                    dynamicData |-> files[path],
                                    width |-> NaN, height |-> NaN])

\* a startup that registers the watcher before it goes through the files
DirStartupWatchFirst(list, i, files, unanswered) ==
    LET r == StartupLoop(list, i, processedFiles, files) IN
    /\ processedFiles' = r.processed
    /\ dirIdx' = r.idx
    /\ watchers' = 1
    /\ IF r.idx <= Len(list)
       THEN /\ DirRequest(list[r.idx], files, unanswered)
            /\ pc' = "existing"
       ELSE /\ pc' = "watching"
            /\ dirInflight' = unanswered
            /\ UNCHANGED <<dirRendered, netCalls, lastRequest>>

\* for (const file of existingFiles) await processFile(file), from position
\* i on; after the last file the watcher is registered
DirStartup(list, i, files, unanswered) ==
    LET r == StartupLoop(list, i, processedFiles, files) IN
    /\ processedFiles' = r.processed
    /\ dirIdx' = r.idx
    /\ IF r.idx <= Len(list)
       THEN /\ DirRequest(list[r.idx], files, unanswered)
            /\ pc' = "existing"
            /\ watchers' = watchers
       ELSE /\ pc' = "watching"
            /\ watchers' = watchers + 1
            /\ dirInflight' = unanswered
            /\ UNCHANGED <<dirRendered, netCalls, lastRequest>>

\* the action handler of `watch-dir`, up to its first await
DirAction ==
    /\ cmd = "watch-dir" /\ pc = "start"
    /\ IF ~Authenticated
       THEN /\ Exit(1, "Not authenticated")
            /\ UNCHANGED <<netCalls, lastRequest, watchers, existingFiles,
                           dirIdx, processedFiles, dirInflight, dirRendered>>
       ELSE IF MissingId(options)
       THEN /\ Exit(1, "Either --design or --template is required")
            /\ UNCHANGED <<netCalls, lastRequest, watchers, existingFiles,
                           dirIdx, processedFiles, dirInflight, dirRendered>>
       ELSE IF ~options.dirExists
       THEN /\ Exit(1, "Directory not found")
            /\ UNCHANGED <<netCalls, lastRequest, watchers, existingFiles,
                           dirIdx, processedFiles, dirInflight, dirRendered>>
       ELSE /\ existingFiles' = Listing(dirFiles)
            /\ DirStartup(Listing(dirFiles), 1, dirFiles, dirInflight)
            /\ UNCHANGED <<exitCode, errMsg>>
    /\ UNCHANGED <<cmd, options, dirFiles, settle, dirWritten, unlinked,
                   dirEvents, dirSeen, notDir>>

\* a processFile that deletes its input whatever became of the render
AfterRenderAlwaysDelete(r, httpOk, writeOk) ==
    /\ dirWritten' = IF httpOk /\ writeOk THEN dirWritten \cup {<<r.file, "png">>}
                     ELSE dirWritten
    /\ IF options.deleteAfter /\ r.file \in DOMAIN dirFiles
       THEN /\ dirFiles' = [n \in DOMAIN dirFiles \ {r.file} |-> dirFiles[n]]
            /\ unlinked' = unlinked \cup {r.file}
       ELSE UNCHANGED <<dirFiles, unlinked>>

\* processFile, after its await: the output is written, and with
\* --delete-after the input file deleted
AfterRender(r, httpOk, writeOk) ==
    IF httpOk /\ writeOk
    THEN /\ dirWritten' = dirWritten \cup {<<r.file, "png">>}
         /\ IF options.deleteAfter /\ r.file \in DOMAIN dirFiles
            THEN /\ dirFiles' = [n \in DOMAIN dirFiles \ {r.file} |-> dirFiles[n]]
                 /\ unlinked' = unlinked \cup {r.file}
            ELSE UNCHANGED <<dirFiles, unlinked>>
    ELSE UNCHANGED <<dirWritten, dirFiles, unlinked>>

\* the render request of a processFile is answered
DirResponse ==
    /\ cmd = "watch-dir" /\ pc \in {"existing", "watching"}
    /\ \E r \in dirInflight, httpOk \in BOOLEAN, writeOk \in BOOLEAN :
        /\ AfterRender(r, httpOk, writeOk)
        /\ IF pc = "existing"
           THEN DirStartup(existingFiles, dirIdx + 1, dirFiles',
                           dirInflight \ {r})
           ELSE /\ dirInflight' = dirInflight \ {r}
                /\ UNCHANGED <<pc, watchers, processedFiles, dirIdx,
                               dirRendered, netCalls, lastRequest>>
    /\ UNCHANGED <<procVars, existingFiles, settle, dirEvents, dirSeen,
                   notDir>>

\* a file of the directory is created, written or deleted; the fs.watch
\* callback, once registered, arms the 100 ms timeout for a .json file
\* that exists
DirFsEvent(name, content) ==
    /\ cmd = "watch-dir" /\ pc \in {"existing", "watching"}
    /\ dirEvents < MaxDirEvents
    /\ dirEvents' = dirEvents + 1
    /\ content = "deleted" => name \in DOMAIN dirFiles
    /\ dirFiles' = IF content = "deleted"
                   THEN [n \in DOMAIN dirFiles \ {name} |-> dirFiles[n]]
                   ELSE [n \in DOMAIN dirFiles \cup {name} |->
                            IF n = name THEN content ELSE dirFiles[n]]
    /\ settle' = IF watchers > 0 /\ IsJson(name) /\ content # "deleted"
                 THEN Append(settle, name) ELSE settle
    /\ dirSeen' = IF watchers > 0 /\ IsJson(name) /\ content # "deleted"
                  THEN Append(dirSeen, name) ELSE dirSeen
    /\ UNCHANGED <<cmdVars, existingFiles, dirIdx, processedFiles, dirInflight,
                   dirRendered, dirWritten, unlinked, notDir>>

\* the oldest 100 ms timeout expires: processFile(filePath)
SettleFire ==
    /\ cmd = "watch-dir" /\ pc = "watching"
    /\ settle # <<>>
    /\ settle' = Tail(settle)
    /\ LET path == Head(settle) IN
       IF Skipped(path, processedFiles)
       THEN UNCHANGED <<processedFiles, dirInflight, dirRendered, netCalls,
                        lastRequest>>
       ELSE /\ processedFiles' = processedFiles \cup {path}
            /\ IF Readable(path, dirFiles)
               THEN DirRequest(path, dirFiles, dirInflight)
               ELSE UNCHANGED <<dirInflight, dirRendered, netCalls, lastRequest>>
    /\ UNCHANGED <<procVars, pc, watchers, dirFiles, existingFiles, dirIdx,
                   dirWritten, unlinked, dirEvents, dirSeen, notDir>>

\* SIGINT: the handler registered after fs.watch exits the process
DirSigint ==
    /\ cmd = "watch-dir" /\ pc = "watching"
    /\ pc' = "exit"
    /\ exitCode' = 0
    /\ settle' = <<>>
    /\ dirInflight' = {}
    /\ UNCHANGED <<cmd, options, errMsg, netCalls, lastRequest, watchers,
                   dirFiles, existingFiles, dirIdx, processedFiles,
                   dirRendered, dirWritten, unlinked, dirEvents, dirSeen,
                   notDir>>

NextDir ==
    \/ DirAction
    \/ DirResponse
    \/ \E name \in DirNames, content \in {"v1", "invalid", "deleted"} :
            DirFsEvent(name, content)
    \/ SettleFire
    \/ DirSigint

SpecDir == InitDir /\ [][NextDir]_vars

----------------------------------------------------------------------------
(* designs delete, assets delete, apikeys revoke, canvas clear *)

DestructiveCommands ==
    {"designs delete", "assets delete", "apikeys revoke", "canvas clear"}

Ids == {"x1", "x2", "x3"}

DestructiveOptions == [force : BOOLEAN, id : Ids]

\* the endpoint of deleteDesign, deleteAsset, revokeApiKey, clearCanvas
DeleteEndpoint(c) ==
    CASE c = "designs delete" -> "/api/automation/designs/:id"
      [] c = "assets delete"  -> "/api/assets/:id"
      [] c = "apikeys revoke" -> "/api/automation/api-keys/:id"
      [] c = "canvas clear"   -> "/api/designs/:id/canvas/elements"

InitDestructive ==
    /\ cmd \in DestructiveCommands
    /\ options \in DestructiveOptions
    /\ InitProcess
    /\ InitStore
    /\ InitWatchVars
    /\ fileContent = "v1"
    /\ InitWaitVars
    /\ InitBatchVars
    /\ batchFile = [kind |-> "none"]
    /\ InitDirVars
    /\ dirFiles = NoDir

\* the client method of the command: one DELETE request
ClientDelete ==
    /\ netCalls' = netCalls + 1
    /\ lastRequest' = [endpoint |-> DeleteEndpoint(cmd), method |-> "DELETE",
                       id |-> options.id]
    /\ pc' = "deleting"
    /\ UNCHANGED <<exitCode, errMsg>>

\* a prompt whose answer is not looked at
DeclinedNever(confirm) == FALSE

\* if (!confirm): the prompt was answered no
Declined(confirm) == ~confirm

\* the action handler, up to its first await: the prompt, or with --force
\* the request
DestructiveAction ==
    /\ cmd \in DestructiveCommands /\ pc = "start"
    /\ IF ~Authenticated
       THEN /\ Exit(1, "Not authenticated")
            /\ UNCHANGED <<netCalls, lastRequest>>
       ELSE IF ~options.force
       THEN /\ pc' = "prompt"
            /\ UNCHANGED <<exitCode, errMsg, netCalls, lastRequest>>
       ELSE ClientDelete
    /\ UNCHANGED <<cmd, options, watchers, answer, settings, storeVars,
                   watchVars, waitVars, batchVars, dirVars>>

\* the confirmation prompt is answered
PromptAnswer(confirm) ==
    /\ cmd \in DestructiveCommands /\ pc = "prompt"
    /\ answer' = IF confirm THEN "yes" ELSE "no"
    /\ IF Declined(confirm)
       THEN \* info('Cancelled.'); return
            /\ pc' = "exit"
            /\ exitCode' = 0
            /\ UNCHANGED <<errMsg, netCalls, lastRequest>>
       ELSE ClientDelete
    /\ UNCHANGED <<cmd, options, watchers, settings, storeVars, watchVars,
                   waitVars, batchVars, dirVars>>

\* the DELETE request is answered
DeleteDone(ok) ==
    /\ cmd \in DestructiveCommands /\ pc = "deleting"
    /\ IF ok
       THEN pc' = "exit" /\ exitCode' = 0 /\ errMsg' = errMsg
       ELSE Exit(1, "Failed to delete")
    /\ UNCHANGED <<cmd, options, netCalls, lastRequest, watchers, answer,
                   settings, storeVars, watchVars, waitVars, batchVars, dirVars>>

NextDestructive ==
    \/ DestructiveAction
    \/ \E confirm \in BOOLEAN : PromptAnswer(confirm)
    \/ \E ok \in BOOLEAN : DeleteDone(ok)

SpecDestructive == InitDestructive /\ [][NextDestructive]_vars

----------------------------------------------------------------------------
(* config set <key> <value> *)

MaxLen == 3

Chars == Digits \cup {"a", "-", " "}

\* the command line's <value>: strings of up to MaxLen characters
Values == UNION {[1..n -> Chars] : n \in 0..MaxLen}

ConfigKeys ==
    {"baseUrl", "defaultFormat", "defaultQuality", "apiKey", "constructor"}

validKeys == {"baseUrl", "defaultFormat", "defaultQuality"}

\* a check that only asks for a number
QualityRejectedNaNOnly(value) == value = NaN

\* isNaN(value) || value < 1 || value > 100
QualityRejected(value) == value = NaN \/ value[1] < 1 \/ value[1] > 100

\* stores found by the command: the defaults, or settings saved earlier
StoredSettings ==
    {DefaultSettings,
     [baseUrl |-> <<"a">>, defaultFormat |-> <<"a", "a">>,
      defaultQuality |-> 50]}

InitConfig ==
    /\ cmd = "config set"
    /\ options \in [key : ConfigKeys, value : Values]
    /\ settings \in StoredSettings
    /\ answer = "none"
    /\ pc = "start"
    /\ exitCode = "running"
    /\ errMsg = ""
    /\ netCalls = 0
    /\ lastRequest = NoRequest
    /\ watchers = 0
    /\ InitStore
    /\ InitWatchVars
    /\ fileContent = "v1"
    /\ InitWaitVars
    /\ InitBatchVars
    /\ batchFile = [kind |-> "none"]
    /\ InitDirVars
    /\ dirFiles = NoDir

\* the action handler of config set
ConfigSet ==
    /\ cmd = "config set" /\ pc = "start"
    /\ IF options.key \notin validKeys
       THEN Exit(1, "Cannot set") /\ settings' = settings
       ELSE IF options.key = "defaultQuality"
       THEN LET value == ParseInt(options.value)
            IN  IF QualityRejected(value)
                THEN /\ Exit(1, "Quality must be a number between 1 and 100")
                     /\ settings' = settings
                ELSE /\ settings' =
                            [settings EXCEPT !.defaultQuality = value[1]]
                     /\ pc' = "exit" /\ exitCode' = 0 /\ errMsg' = errMsg
       ELSE /\ settings' = [settings EXCEPT ![options.key] = options.value]
            /\ pc' = "exit" /\ exitCode' = 0 /\ errMsg' = errMsg
    /\ UNCHANGED <<cmd, options, netCalls, lastRequest, watchers, answer,
                   storeVars, watchVars, waitVars, batchVars, dirVars>>

NextConfig == ConfigSet

SpecConfig == InitConfig /\ [][NextConfig]_vars

----------------------------------------------------------------------------
(* render, watch and watch-dir together *)

InitCommands == InitRender \/ InitWatch \/ InitDir

NextCommands == NextRender \/ NextWatch \/ NextDir

SpecCommands == InitCommands /\ [][NextCommands]_vars

\* C5: `render`, `watch` and `watch-dir`, given neither a design id nor a
\* template id, end with exit code 1 and the validation error (or, without an
\* API key, the error of requireAuth before it) before any network request
\* is issued, any watcher registered or any file rendered.
C5_NoIdFailsBeforeNetwork ==
    (/\ cmd \in {"render", "watch", "watch-dir"}
     /\ options.design \in {Undef, ""} /\ options.template \in {Undef, ""}) =>
        /\ pc \in {"start", "exit"}
        /\ netCalls = 0 /\ watchers = 0
        /\ inflight = {} /\ dirInflight = {} /\ dirRendered = <<>>
        /\ lastWritten = NoPath /\ dirWritten = {}
        /\ pc = "exit" =>
              /\ exitCode = 1
              /\ errMsg = IF Authenticated
                          THEN "Either --design or --template is required"
                          ELSE "Not authenticated"

\* `watch` with an empty --design and an API key has ended on the validation
\* error, its data file in place
C5_Witness ==
    /\ cmd = "watch" /\ options.design = "" /\ options.template = Undef
    /\ options.fileExists /\ Authenticated
    /\ pc = "exit" /\ exitCode = 1
    /\ errMsg = "Either --design or --template is required"

----------------------------------------------------------------------------
(* Claims about the single-file watch session *)

\* C1: in the single-file watch session no two renders are in flight at the
\* same time: a render does not start before the previous one has completed.
C1_NoConcurrentRenders == Cardinality(inflight) <= 1

\* C2: N >= 1 change events, each less than the debounce time after the one
\* before, fire exactly one render: none between the events, none before the
\* debounce time has passed since the last event, one once it has passed; and
\* that render reads the content the file had at the last event.
C2_Debounce ==
    (cmd = "watch" /\ burst >= 1) =>
        /\ firesSinceEvent <= 1
        /\ sinceEvent < DebounceMs => firesSinceEvent = 0
        /\ (sinceEvent > DebounceMs /\ pc = "watching") => firesSinceEvent = 1
        /\ firesSinceEvent = 1 =>
              /\ lastFire.after = DebounceMs
              /\ lastFire.content = lastEventContent

\* a burst of three events, the last of which changed the file, has fired its
\* one render
C2_Witness ==
    /\ burst >= 3
    /\ firesSinceEvent = 1
    /\ lastEventContent = "v2"
    /\ sinceEvent > DebounceMs

----------------------------------------------------------------------------
(* Claims about the wait loop *)

\* C3: the wait loop stops at the first poll that returns `completed` or
\* `failed`: no status request is issued after it.
C3_StopsAtTerminal ==
    (cmd = "status" /\ terminalAt > 0) =>
        /\ polls = terminalAt
        /\ outstanding = 0
        /\ pc = "exit"
        /\ exitCode = IF jobStatus = "completed" THEN 0 ELSE 1

\* the third poll saw the job failed
C3_Witness == terminalAt = 3 /\ jobStatus = "failed" /\ pc = "exit"

\* the wait ended by its timeout
TimedOut == cmd = "status" /\ pc = "exit" /\ errMsg = "Timeout waiting for render"

\* the wait ended, and every poll had returned a non-terminal status
EndedUnfinished ==
    /\ cmd = "status" /\ options.wait /\ pc = "exit"
    /\ terminalAt = 0
    /\ errMsg \notin {"Not authenticated", "Failed to check status"}

\* C4, as claimed: when every poll returns a non-terminal status the wait
\* ends with the timeout failure, and the number of polls is within one of
\* timeoutMs / pollIntervalMs, whatever the polls' latency.
C4_PollsWithinOne ==
    EndedUnfinished =>
        /\ TimedOut /\ exitCode = 1
        /\ polls * pollInterval <= timeout + pollInterval
        /\ polls * pollInterval >= timeout - pollInterval

\* C4, amended: when every poll returns a non-terminal status the wait ends
\* with the timeout failure, and the number n of polls satisfies
\* timeoutMs / (pollIntervalMs + L) <= n < timeoutMs / pollIntervalMs + 1,
\* L being the longest latency of a poll: within one of timeoutMs /
\* pollIntervalMs when the polls take no time, fewer the longer they take.
C4_PollsBounded ==
    EndedUnfinished =>
        /\ TimedOut /\ exitCode = 1
        /\ polls * pollInterval < timeout + pollInterval
        /\ polls * (pollInterval + maxLatency) >= timeout
        /\ maxLatency = 0 => polls * pollInterval >= timeout

\* a wait of 5 s whose polls took 3 s each timed out after one poll
C4_Witness ==
    /\ TimedOut /\ options.timeout = 5 /\ maxLatency = 3 * MsPerSecond
    /\ polls = 1

----------------------------------------------------------------------------
(* Claims about batch-render *)

HasId(item) == Truthy(item.designId) \/ Truthy(item.templateId)

\* C6: an item of the batch file with neither designId nor templateId fails
\* validation: no render request is issued for it.
C6_NoRequestWithoutId ==
    cmd = "batch" => \A k \in 1 .. Len(requested) : HasId(configs[requested[k]])

CountOf(seq, S) == Cardinality({k \in 1 .. Len(seq) : seq[k] \in S})

----------------------------------------------------------------------------
(* Claims about the profile and config store *)

\* C8: after `profiles use <name>` with <name> in the profile map, the
\* active-profile pointer is <name> and, absent an environment override,
\* getApiKey() returns that profile's stored key.
C8_UseSwitches ==
    (lastOp.op = "use" /\ lastOp.name \in DOMAIN profiles) =>
        /\ lastOp.exit = 0
        /\ activeProfile = lastOp.name
        /\ ~Truthy(envKey) => getApiKey = profiles[lastOp.name].apiKey

\* `profiles use prod` has switched from another profile's key to prod's
C8_Witness ==
    /\ lastOp = [op |-> "use", name |-> "prod", exit |-> 0]
    /\ "default" \in DOMAIN profiles /\ profiles["default"].apiKey = "k1"
    /\ profiles["prod"].apiKey = "k2"
    /\ ~Truthy(envKey) /\ getApiKey = "k2"

\* C9: `profiles use <name>` with a name absent from the profile map exits
\* non-zero and leaves the profile map, the active-profile pointer and the
\* config store's apiKey unchanged.
C9_UseAbsentChangesNothing ==
    [][(lastOp'.op = "use" /\ lastOp'.name \notin DOMAIN profiles) =>
            /\ lastOp'.exit = 1
            /\ UNCHANGED <<profiles, activeProfile, apiKey>>]_vars

\* C10: absent an environment override, the effective API key is the active
\* profile's stored key whenever the active profile is in the profile map.
C10_EffectiveKeyIsActiveProfiles ==
    (cmd = "profiles" /\ ~Truthy(envKey) /\ activeProfile \in DOMAIN profiles) =>
        getApiKey = profiles[activeProfile].apiKey

\* C11: with CANVELETE_API_KEY set to a non-empty value, getApiKey() and
\* getProfileApiKey() both return it, whatever the config store and the
\* profile store hold and whatever profile or auth command has run.
C11_EnvOverrideWins ==
    (cmd = "profiles" /\ Truthy(envKey)) =>
        /\ getApiKey = envKey
        /\ getProfileApiKey = envKey

\* C12: after any sequence of profiles add, use, remove and import, the
\* active-profile pointer names a profile that is in the profile map.
C12_ActiveProfileExists ==
    (cmd = "profiles" /\ lastOp.op \in {"add", "use", "remove", "import"}) =>
        activeProfile \in DOMAIN profiles

----------------------------------------------------------------------------
(* Further claims about the single-file watch session *)

\* the callback has seen a change event while a render was in flight, and no
\* timer has fired since
EventPending ==
    /\ cmd = "watch" /\ pc = "watching"
    /\ burst >= 1 /\ eventInRender /\ firesSinceEvent = 0

\* C13: a change event delivered to the watcher while a render is in flight
\* is not lost: it arms a fresh debounce timer of the full debounce time,
\* and, timers and requests being served, a render that reads the file after
\* the event eventually runs (unless the session is interrupted).
C13_EventNotLost ==
    /\ [](EventPending =>
            \E t \in timers : /\ t.id = debounceTimer
                              /\ t.left = DebounceMs - sinceEvent)
    /\ EventPending ~> (firesSinceEvent >= 1 \/ pc = "exit")

\* the render fired by an event that came during a render runs next to it
C13_Witness ==
    /\ cmd = "watch" /\ pc = "watching"
    /\ eventInRender /\ firesSinceEvent = 1
    /\ lastFire.content = "v2" /\ lastEventContent = "v2"
    /\ Cardinality(inflight) = 2

\* the last render() of the watch session to end has failed
WatchFailed ==
    cmd = "watch" /\ lastOutcome \in {"parse error", "http error", "write error"}

\* the files of the watch-dir session whose processing has failed
DirFailures ==
    {f \in processedFiles :
        <<f, "png">> \notin dirWritten /\ \A r \in dirInflight : r.file # f}

CountTemplate == cmd = "watch" /\ options.output = "out_{{count}}.png"

\* C15, as claimed: the k-th successful render of the session is written to
\* out_k.png.
C15_KthSuccessIsOutK ==
    CountTemplate => \A k \in 1 .. Len(written) : written[k] = <<"out_", k>>

\* C15, amended: the counter counts the renders whose request succeeded,
\* whether or not their output could then be written: the paths written are
\* out_c.png with c strictly increasing and at most that count, no value is
\* used twice, and as long as no write has failed the k-th successful render
\* is written to out_k.png.
C15_CountNumbersResponses ==
    CountTemplate =>
        /\ \A k \in 1 .. Len(written) :
              /\ written[k][1] = "out_"
              /\ written[k][2] >= k /\ written[k][2] <= renderCount
        /\ \A j, k \in 1 .. Len(written) : j < k => written[j][2] < written[k][2]
        /\ Len(written) > 0 => lastWritten = written[Len(written)]
        /\ renderCount = Len(written) =>
              \A k \in 1 .. Len(written) : written[k] = <<"out_", k>>

\* three renders in a row have succeeded
C15_Witness ==
    /\ CountTemplate
    /\ written = << <<"out_", 1>>, <<"out_", 2>>, <<"out_", 3>> >>
    /\ renderCount = 3

\* C18: the post-render command of `watch` is launched when, and only when,
\* a render has succeeded and its output file has been written; the end of a
\* command, failed or not, changes nothing in the session; and the session
\* does not wait for it: with a command still running, the render of a
\* change event fires when its debounce time is over.
C18_HookFireAndForget ==
    /\ [][cmd = "watch" =>
            /\ hooks' > hooks =>
                  /\ Truthy(options.onChange) /\ hooks' = hooks + 1
                  /\ lastOutcome' = "ok"
                  /\ written' = Append(written, lastWritten')
            /\ (Len(written') > Len(written) /\ Truthy(options.onChange)) =>
                  hooks' = hooks + 1
            /\ hooks' < hooks =>
                  UNCHANGED <<pc, exitCode, watchers, timers, debounceTimer,
                              inflight>>]_vars
    /\ []((cmd = "watch" /\ hooks > 0 /\ pc = "watching" /\ burst >= 1) =>
            /\ sinceEvent < DebounceMs => firesSinceEvent = 0
            /\ sinceEvent > DebounceMs => firesSinceEvent = 1)

\* the command launched after the initial render is still running while the
\* render of a later change event is in flight
C18_Witness ==
    /\ cmd = "watch" /\ pc = "watching"
    /\ hooks = 1 /\ Len(written) = 1
    /\ burst >= 1 /\ firesSinceEvent = 1
    /\ \E r \in inflight : r.by = "timer"

----------------------------------------------------------------------------
(* Claims about the directory watch *)

\* the position of a startup file in the listing
PosInListing(f) == CHOOSE k \in 1 .. Len(existingFiles) : existingFiles[k] = f

\* C16: the .json files listed at startup are each processed once, in the
\* order of the listing and one at a time, and all of them are done before
\* the watcher is registered and any event-triggered processing begins.
C16_StartupInOrder ==
    (cmd = "watch-dir" /\ pc \in {"existing", "watching"}) =>
        /\ \A j, k \in 1 .. Len(existingFiles) :
              j # k => existingFiles[j] # existingFiles[k]
        /\ \A j, k \in 1 .. Len(dirRendered) :
              /\ j # k => dirRendered[j] # dirRendered[k]
              /\ (j < k /\ dirRendered[k] \in Range(existingFiles)) =>
                    /\ dirRendered[j] \in Range(existingFiles)
                    /\ PosInListing(dirRendered[j]) < PosInListing(dirRendered[k])
        /\ pc = "existing" =>
              /\ watchers = 0 /\ settle = <<>>
              /\ dirIdx \in 1 .. Len(existingFiles)
              /\ processedFiles = {existingFiles[k] : k \in 1 .. dirIdx}
              /\ Range(dirRendered) \subseteq processedFiles
              /\ Cardinality(dirInflight) = 1
              /\ \A r \in dirInflight : r.file = existingFiles[dirIdx]
        /\ pc = "watching" =>
              /\ Range(existingFiles) \subseteq processedFiles
              /\ \A r \in dirInflight : r.file \notin Range(existingFiles)

\* both files found at startup have been rendered in the order of the
\* listing, an event during the startup went unseen, and an event after it
\* is waiting for its settle delay
C16_Witness ==
    /\ cmd = "watch-dir" /\ pc = "watching"
    /\ existingFiles = <<"a.json", "b.json">>
    /\ dirRendered = <<"a.json", "b.json">>
    /\ dirEvents = 2 /\ Len(settle) = 1

\* C17: with --delete-after an input file is deleted only once its render
\* has succeeded and its output file is written; a file whose read, parse,
\* render or write failed is never deleted, and without the option no file is.
C17_DeleteOnlyAfterSuccess ==
    cmd = "watch-dir" =>
        /\ \A f \in unlinked : options.deleteAfter /\ <<f, "png">> \in dirWritten
        /\ DirFailures \cap unlinked = {}
        /\ (pc # "exit" /\ dirEvents = 0) => DirFailures \subseteq DOMAIN dirFiles

\* one file was rendered, written and deleted; the other failed and is there
C17_Witness ==
    /\ cmd = "watch-dir" /\ options.deleteAfter
    /\ unlinked = {"a.json"} /\ "a.json" \notin DOMAIN dirFiles
    /\ "b.json" \in DirFailures /\ "b.json" \in DOMAIN dirFiles
    /\ dirFiles["b.json"] = "v1"

----------------------------------------------------------------------------
(* Further claims about the wait loop and batch-render *)

\* C19: the wait loop has at most one status request outstanding: a poll is
\* issued only once the one before it has been answered and the sleep of
\* pollInterval that follows has passed.
C19_OneOutstandingPoll ==
    (cmd = "status" /\ options.wait) =>
        /\ outstanding <= 1
        /\ outstanding = 1 <=> pc = "polling"
        /\ polls >= 1 => elapsed >= (polls - 1) * pollInterval

\* the third poll is outstanding, two sleeps after the start
C19_Witness ==
    /\ cmd = "status" /\ options.wait /\ pc = "polling"
    /\ polls = 3 /\ outstanding = 1
    /\ elapsed = 2 * pollInterval

----------------------------------------------------------------------------
(* Claims about the destructive commands *)

\* C21: designs delete, assets delete, apikeys revoke and canvas clear issue
\* their DELETE request only with --force or after the prompt was answered
\* yes; a declined prompt sends no request and ends the command with exit
\* code 0.
C21_DeleteOnlyConfirmed ==
    cmd \in DestructiveCommands =>
        /\ netCalls <= 1
        /\ netCalls = 1 =>
              /\ options.force \/ answer = "yes"
              /\ lastRequest = [endpoint |-> DeleteEndpoint(cmd),
                                method |-> "DELETE", id |-> options.id]
        /\ options.force => answer = "none"
        /\ answer = "no" =>
              /\ netCalls = 0 /\ lastRequest = NoRequest
              /\ pc = "exit" /\ exitCode = 0 /\ errMsg = ""

\* `canvas clear` without --force was declined at its prompt
C21_Witness ==
    /\ cmd = "canvas clear" /\ ~options.force
    /\ answer = "no" /\ pc = "exit" /\ exitCode = 0 /\ netCalls = 0

----------------------------------------------------------------------------
(* Claims about config set *)

\* C22: config set changes the store only for the keys baseUrl,
\* defaultFormat and defaultQuality, and then only the field of that key;
\* every other key, apiKey among them, is rejected with a non-zero exit code
\* and the store (settings, API key, profiles) unchanged; defaultQuality is
\* stored only as the integer in 1..100 its value parses to, and a value
\* that does not parse to one is rejected with the store unchanged.
C22_ConfigSetGuarded ==
    [][cmd = "config set" =>
        LET key == options.key
            settable == {"baseUrl", "defaultFormat", "defaultQuality"}
            parsed == ParseInt(options.value)
            inRange == \E n \in 1..100 : parsed = <<n>>
        IN  /\ UNCHANGED <<apiKey, profiles, activeProfile>>
            /\ pc' = "exit"
            /\ key \notin settable => exitCode' = 1 /\ settings' = settings
            /\ key = "defaultQuality" /\ ~inRange =>
                    exitCode' = 1 /\ settings' = settings
            /\ key = "defaultQuality" /\ inRange =>
                    /\ exitCode' = 0
                    /\ settings'.defaultQuality \in 1..100
                    /\ <<settings'.defaultQuality>> = parsed
            /\ key \in {"baseUrl", "defaultFormat"} =>
                    exitCode' = 0 /\ settings'[key] = options.value
            /\ \A k \in settable \ {key} : settings'[k] = settings[k]
    ]_vars

\* `config set defaultQuality 101` was rejected, the stored quality kept
C22_Witness ==
    /\ cmd = "config set" /\ pc = "exit" /\ exitCode = 1
    /\ options.key = "defaultQuality" /\ options.value = <<"1", "0", "1">>
    /\ settings.defaultQuality = 50

----------------------------------------------------------------------------
(* Claims about the render request body *)

\* C23: the quality given to `render` is sent unchanged, also when it lies
\* outside 1..100 (0 included); width and height are in the body only when
\* they were given on the command line; for the synchronous and the
\* asynchronous call alike.
C23_QualityPassedThrough ==
    cmd = "render" /\ netCalls > 0 =>
        /\ ParseInt(options.quality) # NaN =>
                lastRequest.quality = ParseInt(options.quality)
        /\ lastRequest.width # NaN => options.width # <<>>
        /\ lastRequest.height # NaN => options.height # <<>>

----------------------------------------------------------------------------
(* Claims about the debounce timer of watch *)

\* C24: at most one debounce timer is armed at any time, and it is the one
\* armed by the latest change event: an event that comes while a timer is
\* pending cancels that timer before arming the new one, and only the timer
\* armed last ever fires (a cancelled timer never does).
C24_OneDebounceTimer ==
    /\ [](cmd = "watch" =>
            /\ Cardinality(timers) <= 1
            /\ \A t \in timers : t.id = debounceTimer)
    /\ [][cmd = "watch" /\ firesSinceEvent' # firesSinceEvent
                        /\ fsEvents' = fsEvents =>
            /\ timers = {[id |-> debounceTimer, left |-> 0]}
            /\ timers' = {}]_vars

\* a second change came while the first one's timer was pending: one timer
C24_Witness ==
    /\ cmd = "watch" /\ burst >= 2 /\ sinceEvent = 0
    /\ timers = {[id |-> debounceTimer, left |-> DebounceMs]}
    /\ debounceTimer >= 2

----------------------------------------------------------------------------
(* Claims about the processed set of watch-dir *)

\* C25 as stated: a path for which filesystem events arrived, all of them
\* settled, has exactly one render request.
C25_ExactlyOncePerPath ==
    cmd = "watch-dir" =>
        \A p \in Range(dirSeen) \ Range(settle) :
            CountOf(dirRendered, {p}) = 1

\* C25: each path is rendered at most once per session, however many events
\* arrive for it, within the settle delay or after, and whether or not it
\* was processed at startup; a path gets its one render request when the
\* first processFile call for it finds a file that reads and parses, and
\* none when that call fails to read or parse it.
C25_AtMostOncePerPath ==
    /\ [](cmd = "watch-dir" =>
            /\ \A p \in DirNames : CountOf(dirRendered, {p}) <= 1
            /\ Range(dirRendered) \subseteq processedFiles)
    /\ [][cmd = "watch-dir" =>
            \A p \in processedFiles' \ processedFiles :
                CountOf(dirRendered', {p}) =
                    IF Readable(p, dirFiles') THEN 1 ELSE 0]_vars

\* a.json was rendered at startup; two events for it came within the settle
\* delay and both timeouts have expired: still one request
C25_Witness ==
    /\ cmd = "watch-dir"
    /\ "a.json" \in Range(existingFiles)
    /\ dirSeen = <<"a.json", "a.json">> /\ settle = <<>>
    /\ CountOf(dirRendered, {"a.json"}) = 1

----------------------------------------------------------------------------
(* Claims about a failing poll *)

\* C26: a status request of the wait loop that fails with an HTTP or network
\* error ends the wait at once: the command exits with code 1, the failed
\* request is not repeated and no further poll is sent.
C26_PollErrorEndsWait ==
    /\ [](cmd = "status" /\ errMsg = "Failed to check status" =>
            pc = "exit" /\ exitCode = 1 /\ outstanding = 0)
    /\ [][cmd = "status" /\ errMsg = "Failed to check status" =>
            UNCHANGED <<polls, netCalls>>]_vars
    /\ [][cmd = "status" /\ errMsg' = "Failed to check status" =>
            UNCHANGED <<polls, netCalls>>]_vars

\* the second poll of a wait failed, before the time was up
C26_Witness ==
    /\ cmd = "status" /\ options.wait
    /\ errMsg = "Failed to check status"
    /\ polls = 2 /\ netCalls = 2 /\ pc = "exit"
    /\ jobStatus \notin Terminal /\ elapsed < timeout

----------------------------------------------------------------------------
(* Claims about auth login and profiles remove *)

\* C27: auth login writes the key to the store only when the validation
\* request succeeded; on a 401, on any other non-2xx status and on a request
\* that throws, the command exits non-zero and the stored key is the one
\* from before.
C27_LoginStoresValidatedKey ==
    [][cmd = "profiles" /\ lastOp'.op = "login" =>
        /\ UNCHANGED <<profiles, activeProfile>>
        /\ IF lastOp'.response = "ok"
           THEN lastOp'.exit = 0 /\ apiKey' = lastOp'.name
           ELSE lastOp'.exit = 1 /\ apiKey' = apiKey]_vars

\* a login with k2 was answered 401: the key stored before, k1, is kept
C27_Witness ==
    /\ cmd = "profiles"
    /\ lastOp = [op |-> "login", name |-> "k2", response |-> "401", exit |-> 1]
    /\ apiKey = "k1"

\* the step removes the active profile
RemovesActive ==
    /\ cmd = "profiles" /\ lastOp'.op = "remove"
    /\ activeProfile \in DOMAIN profiles
    /\ activeProfile \notin DOMAIN profiles'

\* C28 as stated: profiles remove leaves the stored apiKey alone; after the
\* active profile was removed the pointer is "default" and getApiKey() is
\* the removed profile's key, and that key stays until a profiles use, an
\* auth login or an auth logout.
C28_StaleUntilUseLoginLogout ==
    [][/\ cmd = "profiles" /\ lastOp'.op = "remove" => apiKey' = apiKey
       /\ RemovesActive =>
             /\ activeProfile' = "default"
             /\ ~Truthy(envKey) =>
                    getApiKey' = profiles[activeProfile].apiKey
       /\ cmd = "profiles" /\ apiKey' # apiKey =>
             lastOp'.op \in {"use", "login", "logout"}]_vars

\* C28: profiles remove never modifies the stored apiKey; when the removed
\* profile was the active one the pointer is reset to "default" and
\* getApiKey() returns what it returned before the removal (the removed
\* profile's key, when that was the effective key); the stored key changes
\* only by profiles use, profiles add with the switch accepted, auth login
\* and auth logout.
C28_RemoveKeepsApiKey ==
    [][/\ cmd = "profiles" /\ lastOp'.op = "remove" =>
             apiKey' = apiKey /\ getApiKey' = getApiKey
       /\ RemovesActive =>
             /\ activeProfile' = "default"
             /\ lastOp'.wasActive
             /\ getApiKey = profiles[activeProfile].apiKey =>
                    getApiKey' = profiles[activeProfile].apiKey
       /\ cmd = "profiles" /\ apiKey' # apiKey =>
             \/ lastOp'.op \in {"use", "login", "logout"}
             \/ lastOp'.op = "add" /\ activeProfile' = lastOp'.name]_vars

\* prod, the active profile with key k2, was removed: the pointer is
\* "default", no profile holds k2, and getApiKey() is still k2
C28_Witness ==
    /\ cmd = "profiles"
    /\ lastOp = [op |-> "remove", name |-> "prod", exit |-> 0,
                 wasActive |-> TRUE]
    /\ "prod" \notin DOMAIN profiles
    /\ activeProfile = "default"
    /\ ~Truthy(envKey) /\ apiKey = "k2" /\ getApiKey = "k2"

----------------------------------------------------------------------------
(* Claims about the start of a watch session *)

\* C29: the watcher of `watch` is registered only after the initial render
\* has completed: while the initial render is in flight there is no watcher
\* and no debounce timer, armed or remembered, and as long as no change event
\* has reached the watcher the only render request is the initial one, so a
\* change made during the initial render triggers no render of its own.
C29_WatcherAfterInitialRender ==
    cmd = "watch" =>
        /\ pc = "initial" =>
              /\ watchers = 0 /\ timers = {} /\ debounceTimer = 0
              /\ \E r \in inflight : r.by = "initial"
        /\ watchers > 0 => \A r \in inflight : r.by # "initial"
        /\ watchers <= 1
        /\ burst = 0 =>
              /\ timers = {} /\ debounceTimer = 0 /\ netCalls <= 1
              /\ \A r \in inflight : r.by = "initial"

\* the data file was changed while the initial render was in flight; the
\* render has completed, the watcher is registered, and no timer was armed
\* and no second request sent for the new content
C29_Witness ==
    /\ cmd = "watch" /\ pc = "watching" /\ watchers = 1
    /\ fsEvents >= 1 /\ burst = 0 /\ debounceTimer = 0 /\ timers = {}
    /\ netCalls = 1 /\ inflight = {}
    /\ Parses(fileContent) /\ lastRequest.dynamicData # fileContent

----------------------------------------------------------------------------
(* Claims about what watch-dir remembers *)

\* C30: a path is put into the processed set before its read, parse and
\* render are attempted, whatever their outcome, and is never taken out: a
\* path gets a render request only in the step that records it, so a file
\* whose processing failed, and a file deleted and created again under the
\* same name, is not rendered again in the session.
C30_ProcessedIsForever ==
    /\ [](cmd = "watch-dir" =>
            /\ Range(dirRendered) \subseteq processedFiles
            /\ \A r \in dirInflight : r.file \in processedFiles
            /\ pc \in {"existing", "watching"} =>
                  \A k \in 1 .. Len(existingFiles) :
                      k < dirIdx => existingFiles[k] \in processedFiles)
    /\ [][cmd = "watch-dir" =>
            /\ processedFiles \subseteq processedFiles'
            /\ \A p \in processedFiles :
                  CountOf(dirRendered', {p}) = CountOf(dirRendered, {p})
            /\ settle # <<>> /\ settle' = Tail(settle) /\ pc' = "watching" =>
                  Head(settle) \in processedFiles']_vars

\* b.json could not be parsed at startup; it was written again with valid
\* JSON, the watcher's timeout for it has expired, and it is not rendered
C30_Witness ==
    /\ cmd = "watch-dir" /\ pc = "watching"
    /\ "b.json" \in Range(existingFiles)
    /\ "b.json" \in Range(dirSeen) /\ settle = <<>>
    /\ Readable("b.json", dirFiles)
    /\ "b.json" \in processedFiles
    /\ "b.json" \notin Range(dirRendered)

====
